---- MODULE Spec2Model ----
(***************************************************************************)
(* AI Code Mentor: the FastAPI backend (backend/main.py,                   *)
(* backend/core/llm_services.py, backend/core/code_parser.py,              *)
(* backend/models/schemas.py) and the Streamlit front end                  *)
(* (frontend/app.py) as a state machine.                                   *)
(*                                                                         *)
(* Python values.  A str that the program only passes around (a request's  *)
(* code, a question, an environment value) is a TLA+ string.  A str that   *)
(* the program builds or takes apart (the LLM's text, an error message) is *)
(* a sequence of pieces: one character per piece for the LLM's text, one   *)
(* literal or interpolated value per piece for a message.  An Optional     *)
(* value is None or Some(v).  A dict is a record with exactly its keys.    *)
(***************************************************************************)
EXTENDS Integers, Sequences, FiniteSets, TLC

\* ------------------------------------------------------------------ bounds
\* Number of HTTP requests the backend handles, concurrently, in one run.
MaxReq == 2
\* Longest LLM text, in characters, the post-processing is explored on.
MaxLen == 4
\* Number of times the UI's "Analyze Code" button is pressed in one run.
MaxSubmits == 2

\* ----------------------------------------------------------- Python values
None == [none |-> TRUE]
Some(v) == [some |-> v]

\* dict.get(key): the value, or None when the key is absent.
Get(d, key) == IF key \in DOMAIN d THEN Some(d[key]) ELSE None

\* Truth value of an Optional[str]: None and the empty str are falsy.
Truthy(o) == o # None /\ o.some # ""

\* Truth value of a str held as a sequence of pieces.
TruthyText(o) == o # None /\ o.some # <<>>

\* str.lower() on the provider names the environment is explored with.
Lower(s) ==
    CASE s = "GROQ" -> "groq"
      [] s = "OpenAI" -> "openai"
      [] OTHER -> s

\* ------------------------------------------------- backend/core/code_parser
\* ast.parse on the code strings the requests are explored with: a tree, a
\* SyntaxError, or another exception (RecursionError on a deeply nested
\* expression such as 'a.' * 50000 + 'b').
CodeEmpty == ""
CodeValid == "x = 1"
CodeInvalid == "def f(:"
CodeDeep == "a.a.a. ... .b"

ast_parse(code) ==
    CASE code = CodeInvalid -> [kind |-> "raise", exc |-> [type |-> "SyntaxError"]]
      [] code = CodeDeep -> [kind |-> "raise", exc |-> [type |-> "RecursionError"]]
      [] OTHER -> [kind |-> "return", value |-> Some([Module |-> code])]

\* parse_python_code: the tree, None on SyntaxError; any other exception of
\* ast.parse is not caught.
parse_python_code(code) ==
    LET r == ast_parse(code) IN
    IF r.kind = "raise" /\ r.exc.type = "SyntaxError"
    THEN [kind |-> "return", value |-> None]
    ELSE r

\* --------------------------------------------- backend/core/llm_services
PROVIDER_CONFIG ==
    [openai    |-> [class |-> "ChatOpenAI", model |-> "gpt-3.5-turbo",
                    api_key_name |-> "OPENAI_API_KEY"],
     anthropic |-> [class |-> "ChatAnthropic", model |-> "claude-3-sonnet-20240229",
                    api_key_name |-> "ANTHROPIC_API_KEY"],
     groq      |-> [class |-> "ChatGroq", model |-> "llama3-8b-8192",
                    api_key_name |-> "GROQ_API_KEY"],
     google    |-> [class |-> "ChatGoogleGenerativeAI", model |-> "gemini-pro",
                    api_key_name |-> "GOOGLE_API_KEY"]]

ApiKeyNames == {PROVIDER_CONFIG[p].api_key_name : p \in DOMAIN PROVIDER_CONFIG}

\* os.getenv(name, default)
getenv(e, name, default) == IF e[name] = None THEN default ELSE e[name]

\* LLM_PROVIDER = os.getenv("LLM_PROVIDER", "groq").lower()
read_LLM_PROVIDER(e) == Lower(getenv(e, "LLM_PROVIDER", Some("groq")).some)

\* The environments the process is started in: a provider name (or none), and
\* at most one credential variable set, to the empty or to a non-empty value.
EnvProviders == {None, Some("OpenAI"), Some("anthropic"), Some("google"), Some("azure")}
EnvKeyValues == {Some(""), Some("sk-test")}
NoKeys == [k \in ApiKeyNames |-> None]
EnvKeys == {NoKeys} \cup
           {[NoKeys EXCEPT ![k] = v] : k \in ApiKeyNames, v \in EnvKeyValues}
Envs == {[k \in ApiKeyNames \cup {"LLM_PROVIDER"} |->
             IF k = "LLM_PROVIDER" THEN p ELSE ks[k]] : p \in EnvProviders, ks \in EnvKeys}

\* Outcomes of config["class"](model=..., temperature=0.3).
CtorOutcomes == {"ok", "ImportError", "Exception"}

\* Lines 55-64: whether the client's constructor is called at all.
ctor_reached(provider, e) ==
    /\ provider \in DOMAIN PROVIDER_CONFIG
    /\ Truthy(getenv(e, PROVIDER_CONFIG[provider].api_key_name, None))

\* Lines 54-85: the client, or None.
init_llm(provider, e, ctor) ==
    IF provider \in DOMAIN PROVIDER_CONFIG
    THEN LET config == PROVIDER_CONFIG[provider]
             api_key == getenv(e, config.api_key_name, None)
         IN IF ~Truthy(api_key)
            THEN None
            ELSE IF ctor = "ok"
                 THEN Some([class |-> config.class, model |-> config.model])
                 ELSE None
    ELSE None

\* "Option 2" of the source's comment: go on without a client.
startup_phase_fallback(client) == "running"

\* Lines 88-91: a missing client stops the import of the module.
startup_phase(client) == IF client = None THEN "failed" ELSE "running"

\* Lines 125-128: template | llm | StrOutputParser()
make_chains(client) ==
    [explain_chain |-> [template |-> "explain_template", llm |-> client],
     suggest_chain |-> [template |-> "suggest_template", llm |-> client],
     debug_chain   |-> [template |-> "debug_template", llm |-> client],
     what_if_chain |-> [template |-> "what_if_template", llm |-> client]]

NoChains == [c \in {"explain_chain", "suggest_chain", "debug_chain", "what_if_chain"} |-> None]

\* ---- str operations used by the post-processing (lines 150 and 160)
NL == "\n"
\* Characters str.strip() removes (here: space, tab, carriage return, newline).
Whitespace == {" ", "\t", "\r", NL}

\* str.split(sep): the pieces between the separators, at least one piece.
RECURSIVE split_from(_, _, _, _)
split_from(s, sep, i, cur) ==
    IF i > Len(s)
    THEN <<cur>>
    ELSE IF s[i] = sep
         THEN <<cur>> \o split_from(s, sep, i + 1, <<>>)
         ELSE split_from(s, sep, i + 1, Append(cur, s[i]))

split(s, sep) == split_from(s, sep, 1, <<>>)

RECURSIVE lstrip(_)
lstrip(s) == IF s # <<>> /\ Head(s) \in Whitespace THEN lstrip(Tail(s)) ELSE s

RECURSIVE rstrip(_)
rstrip(s) ==
    IF s # <<>> /\ s[Len(s)] \in Whitespace THEN rstrip(SubSeq(s, 1, Len(s) - 1)) ELSE s

strip(s) == rstrip(lstrip(s))

\* The comprehension without its "if s.strip()".
RECURSIVE stripped_all(_)
stripped_all(lines) ==
    IF lines = <<>> THEN <<>> ELSE <<strip(Head(lines))>> \o stripped_all(Tail(lines))

\* [s.strip() for s in lines if s.strip()]
RECURSIVE stripped_nonblank(_)
stripped_nonblank(lines) ==
    IF lines = <<>>
    THEN <<>>
    ELSE (IF strip(Head(lines)) # <<>> THEN <<strip(Head(lines))>> ELSE <<>>)
         \o stripped_nonblank(Tail(lines))

\* Line 150: suggestions_list
suggestions_list(suggestions_text) == stripped_nonblank(split(suggestions_text, NL))

\* Line 160: potential_bugs
potential_bugs(debug_text) ==
    LET lines == stripped_nonblank(split(debug_text, NL))
    IN [i \in 1..Len(lines) |-> [issue |-> lines[i]]]

\* ---- the four service functions.  Each is a coroutine with one await:
\* X_call is the part before the await (a result, an exception, or the chain
\* it awaits), X_resume the part after it, given the outcome of the chain.
InternalError == "An internal error occurred."
SyntaxErrorMessage == <<"Syntax error in code, cannot parse.">>

Return(v) == [kind |-> "return", value |-> v]
Raise(e) == [kind |-> "raise", exc |-> e]
Await(chain, input) == [kind |-> "await", chain |-> chain, input |-> input]

\* get_code_explanation without its syntax check.
get_code_explanation_call_unchecked(code) == Await("explain_chain", [code |-> code])

\* Lines 134-138
get_code_explanation_call(code) ==
    LET tree == parse_python_code(code) IN
    IF tree.kind = "raise"
    THEN Raise(tree.exc)
    ELSE IF tree.value = None
         THEN Return([error |-> SyntaxErrorMessage])
         ELSE Await("explain_chain", [code |-> code])

\* Lines 138-144
get_code_explanation_resume(code, outcome) ==
    IF outcome.kind = "return"
    THEN Return([overall_summary |-> outcome.value])
    ELSE Return([error |-> <<"Failed to get explanation from LLM: ", InternalError>>])

\* get_code_suggestions with the syntax check of get_code_explanation.
get_code_suggestions_call_gated(code) ==
    IF parse_python_code(code) = Return(None)
    THEN Return([error |-> SyntaxErrorMessage])
    ELSE Await("suggest_chain", [code |-> code])

\* Lines 148-149
get_code_suggestions_call(code) == Await("suggest_chain", [code |-> code])

\* Lines 149-154
get_code_suggestions_resume(code, outcome) ==
    IF outcome.kind = "return"
    THEN Return([suggestions |-> suggestions_list(outcome.value)])
    ELSE Return([error |-> <<"Failed to get suggestions from LLM: ", InternalError>>])

\* Lines 158-159
get_code_debugging_info_call(code) == Await("debug_chain", [code |-> code])

\* The except block as it was before the message was made generic: f"...: {e}".
get_code_debugging_info_resume_leaky(code, outcome) ==
    IF outcome.kind = "return"
    THEN Return([potential_bugs |-> potential_bugs(outcome.value)])
    ELSE Return([error |-> <<"Failed to get debugging info from LLM: ">> \o outcome.exc.text])

\* Lines 159-164
get_code_debugging_info_resume(code, outcome) ==
    IF outcome.kind = "return"
    THEN Return([potential_bugs |-> potential_bugs(outcome.value)])
    ELSE Return([error |-> <<"Failed to get debugging info from LLM: ", InternalError>>])

\* Lines 168-169
answer_what_if_question_call(code, user_question) ==
    Await("what_if_chain", [code |-> code, user_question |-> user_question])

\* Lines 169-173
answer_what_if_question_resume(code, user_question, outcome) ==
    IF outcome.kind = "return"
    THEN Return([explanation |-> outcome.value])
    ELSE Return([error |-> <<"Failed to answer 'what if' question: ", InternalError>>])

\* ------------------------------------------------- backend/models/schemas
\* CodeInput(**body): code is required, user_question defaults to None.
CodeInput(body) ==
    IF "code" \notin DOMAIN body
    THEN Raise([type |-> "RequestValidationError"])
    ELSE Return([code |-> body.code,
                 language |-> "python",
                 user_question |-> Get(body, "user_question")])

ExplanationResponse(result) ==
    [line_by_line |-> Get(result, "line_by_line"),
     overall_summary |-> Get(result, "overall_summary"),
     error |-> Get(result, "error")]

SuggestionResponse(result) ==
    [suggestions |-> Get(result, "suggestions"),
     error |-> Get(result, "error")]

DebugResponse(result) ==
    [potential_bugs |-> Get(result, "potential_bugs"),
     error |-> Get(result, "error")]

WhatIfResponse(result) ==
    [explanation |-> Get(result, "explanation"),
     modified_code |-> Get(result, "modified_code"),
     error |-> Get(result, "error")]

\* ------------------------------------------------------- backend/main.py
HTTP_400_BAD_REQUEST == 400
HTTP_500_INTERNAL_SERVER_ERROR == 500

HTTPException(status_code, detail) ==
    [type |-> "HTTPException", status_code |-> status_code, detail |-> detail]

\* explain_code returning the result record whatever it holds.
explain_code_finish_in_body(result) ==
    Return(ExplanationResponse(result)) @@ [result |-> Some(result)]

\* Lines 45-47
explain_code_finish(result) ==
    IF TruthyText(Get(result, "error"))
    THEN Raise(HTTPException(HTTP_500_INTERNAL_SERVER_ERROR, result.error))
         @@ [result |-> Some(result)]
    ELSE Return(ExplanationResponse(result)) @@ [result |-> Some(result)]

\* explain_code without its check of payload.code.
explain_code_call_unguarded(payload) ==
    LET s == get_code_explanation_call(payload.code)
    IN IF s.kind = "return" THEN explain_code_finish(s.value) ELSE s

\* Lines 42-44, up to the await inside get_code_explanation
explain_code_call(payload) ==
    IF ~Truthy(Some(payload.code))
    THEN Raise(HTTPException(HTTP_400_BAD_REQUEST, <<"No code provided">>))
    ELSE LET s == get_code_explanation_call(payload.code)
         IN IF s.kind = "return" THEN explain_code_finish(s.value) ELSE s

\* Lines 44-47, from the await on
explain_code_resume(payload, outcome) ==
    explain_code_finish(get_code_explanation_resume(payload.code, outcome).value)

\* Lines 55-57
suggest_improvements_finish(result) ==
    IF TruthyText(Get(result, "error"))
    THEN Raise(HTTPException(HTTP_500_INTERNAL_SERVER_ERROR, result.error))
         @@ [result |-> Some(result)]
    ELSE Return(SuggestionResponse(result)) @@ [result |-> Some(result)]

\* Lines 52-54
suggest_improvements_call(payload) ==
    IF ~Truthy(Some(payload.code))
    THEN Raise(HTTPException(HTTP_400_BAD_REQUEST, <<"No code provided">>))
    ELSE get_code_suggestions_call(payload.code)

\* Lines 54-57
suggest_improvements_resume(payload, outcome) ==
    suggest_improvements_finish(get_code_suggestions_resume(payload.code, outcome).value)

\* Lines 65-67
debug_code_finish(result) ==
    IF TruthyText(Get(result, "error"))
    THEN Raise(HTTPException(HTTP_500_INTERNAL_SERVER_ERROR, result.error))
         @@ [result |-> Some(result)]
    ELSE Return(DebugResponse(result)) @@ [result |-> Some(result)]

\* Lines 62-64
debug_code_call(payload) ==
    IF ~Truthy(Some(payload.code))
    THEN Raise(HTTPException(HTTP_400_BAD_REQUEST, <<"No code provided">>))
    ELSE get_code_debugging_info_call(payload.code)

\* Lines 64-67
debug_code_resume(payload, outcome) ==
    debug_code_finish(get_code_debugging_info_resume(payload.code, outcome).value)

\* Lines 75-77
what_if_scenario_finish(result) ==
    IF TruthyText(Get(result, "error"))
    THEN Raise(HTTPException(HTTP_500_INTERNAL_SERVER_ERROR, result.error))
         @@ [result |-> Some(result)]
    ELSE Return(WhatIfResponse(result)) @@ [result |-> Some(result)]

\* Lines 72-74
what_if_scenario_call(payload) ==
    IF ~Truthy(Some(payload.code)) \/ ~Truthy(payload.user_question)
    THEN Raise(HTTPException(HTTP_400_BAD_REQUEST, <<"Code and user question required">>))
    ELSE answer_what_if_question_call(payload.code, payload.user_question.some)

\* Lines 74-77
what_if_scenario_resume(payload, outcome) ==
    what_if_scenario_finish(
        answer_what_if_question_resume(payload.code, payload.user_question.some, outcome).value)

\* The routes of the app: @app.post(...)
Endpoints == {"explain", "suggest", "debug", "whatif"}

route_call(endpoint, payload) ==
    CASE endpoint = "explain" -> explain_code_call(payload)
      [] endpoint = "suggest" -> suggest_improvements_call(payload)
      [] endpoint = "debug" -> debug_code_call(payload)
      [] endpoint = "whatif" -> what_if_scenario_call(payload)

route_resume(endpoint, payload, outcome) ==
    CASE endpoint = "explain" -> explain_code_resume(payload, outcome)
      [] endpoint = "suggest" -> suggest_improvements_resume(payload, outcome)
      [] endpoint = "debug" -> debug_code_resume(payload, outcome)
      [] endpoint = "whatif" -> what_if_scenario_resume(payload, outcome)

\* What the framework sends for a handler's outcome: the response model as
\* JSON, an HTTPException as its status and detail, a failed body validation
\* as 422, any other exception as 500 "Internal Server Error".
http_response(o) ==
    IF o.kind = "return"
    THEN [status |-> 200, body |-> o.value]
    ELSE IF o.exc.type = "HTTPException"
         THEN [status |-> o.exc.status_code, body |-> [detail |-> o.exc.detail]]
         ELSE IF o.exc.type = "RequestValidationError"
              THEN [status |-> 422,
                    body |-> [detail |-> <<"Field required">>]]
              ELSE [status |-> HTTP_500_INTERNAL_SERVER_ERROR,
                    body |-> [plain |-> <<"Internal Server Error">>]]

\* ---- get_function_definitions (code_parser.py lines 19-25).  A tree is the
\* sequence of its statement nodes in source order, each with its kind, its
\* name and its depth in the tree (1: in the body of the Module); the Module
\* is node 0.  FunctionDef, AsyncFunctionDef and ClassDef have a body.
MaxNodes == 5

Compound == {"FunctionDef", "AsyncFunctionDef", "ClassDef"}
Statements ==
    {[kind |-> "FunctionDef", name |-> "f"], [kind |-> "FunctionDef", name |-> "g"],
     [kind |-> "AsyncFunctionDef", name |-> "h"], [kind |-> "ClassDef", name |-> "C"],
     [kind |-> "Assign", name |-> "x"]}

Node(stmt, depth) == [kind |-> stmt.kind, name |-> stmt.name, depth |-> depth]

\* Depths the next statement of a source can have: inside the body the last
\* statement opens, or at the level of any statement still open.
NextDepths(t) ==
    IF t = <<>> THEN {1}
    ELSE IF t[Len(t)].kind \in Compound THEN {t[Len(t)].depth + 1}
         ELSE 1..t[Len(t)].depth

RECURSIVE TreesOfSize(_)
TreesOfSize(n) ==
    IF n = 0
    THEN {<<>>}
    ELSE LET shorter == TreesOfSize(n - 1)
             nodes == {Node(stmt, d) : stmt \in Statements, d \in 1..n}
         IN {Append(p[1], p[2]) :
                p \in {q \in shorter \X nodes : q[2].depth \in NextDepths(q[1])}}

\* The trees ast.parse builds: no statement is left without its body.
Trees ==
    UNION {{t \in TreesOfSize(n) : t = <<>> \/ t[Len(t)].kind \notin Compound} :
              n \in 0..MaxNodes}

\* ast.iter_child_nodes: the statements of the body of node i, in order.
RECURSIVE children_from(_, _, _)
children_from(t, depth, j) ==
    IF j > Len(t) \/ t[j].depth <= depth
    THEN <<>>
    ELSE (IF t[j].depth = depth + 1 THEN <<j>> ELSE <<>>) \o children_from(t, depth, j + 1)

iter_child_nodes(t, i) == children_from(t, IF i = 0 THEN 0 ELSE t[i].depth, i + 1)

\* ast.walk: breadth first, from a queue that starts with the root.
RECURSIVE walk_from(_, _)
walk_from(t, todo) ==
    IF todo = <<>>
    THEN <<>>
    ELSE <<Head(todo)>> \o walk_from(t, Tail(todo) \o iter_child_nodes(t, Head(todo)))

walk(t) == walk_from(t, <<0>>)

\* The names of the FunctionDef nodes among the given nodes, in their order.
RECURSIVE function_names(_, _)
function_names(t, nodes) ==
    IF nodes = <<>>
    THEN <<>>
    ELSE (IF Head(nodes) # 0 /\ t[Head(nodes)].kind = "FunctionDef"
          THEN <<t[Head(nodes)].name>> ELSE <<>>)
         \o function_names(t, Tail(nodes))

\* get_function_definitions over the body of the Module only.
get_function_definitions_top_level(t) == function_names(t, iter_child_nodes(t, 0))

\* Lines 19-25
get_function_definitions(t) == function_names(t, walk(t))

\* ------------------------------------------------------------ the backend
\* JSON bodies the requests are explored with: no field, each code alone, a
\* code with a question; /whatif also gets an empty question, and a question
\* with an empty or an unparsable code.
EmptyBody == [k \in {} |-> ""]
Question == "What if n is negative?"
Bodies ==
    {EmptyBody}
    \cup {[code |-> c] : c \in {CodeEmpty, CodeValid, CodeInvalid, CodeDeep}}
    \cup {[code |-> CodeValid, user_question |-> Question]}
WhatIfBodies ==
    Bodies
    \cup {[code |-> CodeValid, user_question |-> ""]}
    \cup {[code |-> c, user_question |-> Question] : c \in {CodeEmpty, CodeInvalid}}
BodiesFor(endpoint) == IF endpoint = "whatif" THEN WhatIfBodies ELSE Bodies

\* What chain.ainvoke produces: a text, or an exception of the client library.
LLMTexts == {<<" ", "a", NL, NL, "b", " ">>}
LLMExceptions == {[type |-> "APIConnectionError", text |-> <<"Connection error.">>]}

ReqIds == 1..MaxReq

VARIABLES
    env,            \* os.environ after load_dotenv()
    phase,          \* "import" | "running" | "failed": the import of llm_services
    LLM_PROVIDER,   \* module-level, llm_services.py line 25
    llm,            \* module-level, llm_services.py lines 54-79
    construction,   \* how the client's constructor ended, when it was called
    chains,         \* module-level, llm_services.py lines 125-128
    req,            \* the requests: position, locals and response of each handler
    text,           \* an LLM text given to the post-processing on its own
    processed,      \* what the post-processing made of it
    ui,             \* the Streamlit session: the widgets' values, the button presses
    run,            \* the last run of the script: its inputs, its POSTs, what it showed
    tree,           \* a parse tree given to get_function_definitions on its own
    functions       \* what get_function_definitions returned for it

vars == <<env, phase, LLM_PROVIDER, llm, construction, chains, req, text, processed,
          ui, run, tree, functions>>
module_state == <<LLM_PROVIDER, llm, chains>>
post_vars == <<text, processed>>
ui_vars == <<ui, run>>
parser_vars == <<tree, functions>>

IdleRequest ==
    [pc |-> "idle", endpoint |-> None, body |-> None, payload |-> None,
     call |-> None, llmCalls |-> 0, outcome |-> None, result |-> None,
     response |-> None]

\* The selectbox of frontend/app.py lines 48-52.
Actions == <<"Explain Code", "Suggest Improvements", "Debug Code", "Answer 'What Is Ask'">>

InitUI ==
    /\ ui = [code_input |-> "", what_if_question |-> "", action |-> Actions[1],
             submits |-> 0]
    /\ run = None

InitPost == text = <<>> /\ processed = None

InitParser == tree = <<>> /\ functions = None

InitBackend ==
    /\ phase = "import"
    /\ LLM_PROVIDER = None
    /\ llm = None
    /\ construction = None
    /\ chains = NoChains
    /\ req = [r \in ReqIds |-> IdleRequest]

Init == env \in Envs /\ InitBackend /\ InitPost /\ InitUI /\ InitParser

\* Import of backend.core.llm_services (lines 20-128), which main.py imports.
Startup ==
    /\ phase = "import"
    /\ \E ctor \in CtorOutcomes :
         LET provider == read_LLM_PROVIDER(env)
             client == init_llm(provider, env, ctor)
         IN /\ LLM_PROVIDER' = Some(provider)
            /\ llm' = client
            /\ construction' = IF ctor_reached(provider, env) THEN Some(ctor) ELSE None
            /\ phase' = startup_phase(client)
            /\ chains' = IF startup_phase(client) = "running"
                         THEN make_chains(client) ELSE NoChains
    /\ UNCHANGED <<env, req, post_vars, ui_vars, parser_vars>>

\* A POST arrives: the body is validated and the handler runs up to its
\* await of chain.ainvoke, or to its end when it does not get there.
Receive(r) ==
    /\ phase = "running"
    /\ req[r].pc = "idle"
    /\ IF r = 1 THEN TRUE ELSE req[r - 1].pc # "idle"
    /\ \E endpoint \in Endpoints : \E body \in BodiesFor(endpoint) :
         LET v == CodeInput(body)
             h == IF v.kind = "raise" THEN v ELSE route_call(endpoint, v.value)
         IN req' = [req EXCEPT ![r] =
                IF h.kind = "await"
                THEN [pc |-> "awaiting", endpoint |-> Some(endpoint), body |-> Some(body),
                      payload |-> Some(v.value),
                      call |-> Some([chain |-> h.chain, runnable |-> chains[h.chain],
                                     input |-> h.input]),
                      llmCalls |-> 1, outcome |-> None, result |-> None,
                      response |-> None]
                ELSE [pc |-> "done", endpoint |-> Some(endpoint), body |-> Some(body),
                      payload |-> IF v.kind = "raise" THEN None ELSE Some(v.value),
                      call |-> None, llmCalls |-> 0, outcome |-> None,
                      result |-> IF "result" \in DOMAIN h THEN h.result ELSE None,
                      response |-> Some(http_response(h))]]
    /\ UNCHANGED <<env, phase, construction, module_state, post_vars, ui_vars, parser_vars>>

\* The handler resumes with the outcome of the chain and runs to its end.
Resume(r, outcome) ==
    LET h == route_resume(req[r].endpoint.some, req[r].payload.some, outcome)
    IN req' = [req EXCEPT ![r] =
           [@ EXCEPT !.pc = "done", !.outcome = Some(outcome),
                     !.result = h.result, !.response = Some(http_response(h))]]

\* A handler that falls back to another provider once the LLM has answered.
LLMReturn_reselect(r) ==
    /\ req[r].pc = "awaiting"
    /\ \E t \in LLMTexts : Resume(r, Return(t))
    /\ LLM_PROVIDER' = Some("openai")
    /\ UNCHANGED <<env, phase, construction, llm, chains, post_vars, ui_vars, parser_vars>>

\* chain.ainvoke returns the LLM's text (lines 138-139, 149-151, 159-161, 169-170).
LLMReturn(r) ==
    /\ req[r].pc = "awaiting"
    /\ \E t \in LLMTexts : Resume(r, Return(t))
    /\ UNCHANGED <<env, phase, construction, module_state, post_vars, ui_vars, parser_vars>>

\* A service function that calls the chain again when it raised.
LLMRaise_retry(r) ==
    /\ req[r].pc = "awaiting"
    /\ req[r].llmCalls < 3
    /\ req' = [req EXCEPT ![r].llmCalls = @ + 1]
    /\ UNCHANGED <<env, phase, construction, module_state, post_vars, ui_vars, parser_vars>>

\* chain.ainvoke raises (lines 140-144, 152-154, 162-164, 171-173).
LLMRaise(r) ==
    /\ req[r].pc = "awaiting"
    /\ \E e \in LLMExceptions : Resume(r, Raise(e))
    /\ UNCHANGED <<env, phase, construction, module_state, post_vars, ui_vars, parser_vars>>

\* ---- the post-processing on its own: one LLM text, given to the part of
\* get_code_suggestions or get_code_debugging_info that follows the await.
Chars == {"a", "b", " ", NL}
Texts == UNION {[1..n -> Chars] : n \in 0..MaxLen}

DefaultEnv == [k \in ApiKeyNames \cup {"LLM_PROVIDER"} |-> None]

InitPostProcessing ==
    /\ env = DefaultEnv
    /\ InitBackend
    /\ text \in Texts
    /\ processed = None
    /\ InitUI
    /\ InitParser

\* Lines 150-151
PostProcessSuggestions ==
    /\ processed = None
    /\ processed' = Some(get_code_suggestions_resume(CodeValid, Return(text)).value)
    /\ UNCHANGED <<env, phase, construction, module_state, req, text, ui_vars, parser_vars>>

\* Lines 160-161
PostProcessDebug ==
    /\ processed = None
    /\ processed' = Some(get_code_debugging_info_resume(CodeValid, Return(text)).value)
    /\ UNCHANGED <<env, phase, construction, module_state, req, text, ui_vars, parser_vars>>

NextPostProcessing == PostProcessSuggestions \/ PostProcessDebug

SpecPostProcessing == InitPostProcessing /\ [][NextPostProcessing]_vars

\* ---- get_function_definitions on its own: one tree, given to the function.
InitParsing ==
    /\ env = DefaultEnv
    /\ InitBackend
    /\ InitPost
    /\ InitUI
    /\ tree \in Trees
    /\ functions = None

GetFunctionDefinitions ==
    /\ functions = None
    /\ functions' = Some(get_function_definitions(tree))
    /\ UNCHANGED <<env, phase, construction, module_state, req, post_vars, ui_vars, tree>>

NextParsing == GetFunctionDefinitions

SpecParsing == InitParsing /\ [][NextParsing]_vars

\* ------------------------------------------------------- frontend/app.py
\* How a POST of the UI ends: a 2xx answer with a JSON object, an error
\* status with a detail, or no response at all (refused, timed out).
Summary == <<"I", "t", " ", "s", "e", "t", "s", " ", "x">>
APIOutcomes(endpoint) ==
    {[kind |-> "no_response"],
     [kind |-> "http_error", detail |-> <<"Failed to get explanation from LLM: ", InternalError>>]}
    \cup {[kind |-> "ok", json |-> j] : j \in
            CASE endpoint = "explain" ->
                    {ExplanationResponse([overall_summary |-> Summary]),
                     ExplanationResponse([overall_summary |-> <<>>])}
              [] endpoint = "suggest" ->
                    {SuggestionResponse([suggestions |-> <<Summary>>]),
                     SuggestionResponse([suggestions |-> <<>>])}
              [] endpoint = "debug" ->
                    {DebugResponse([potential_bugs |-> <<[issue |-> Summary]>>]),
                     DebugResponse([potential_bugs |-> <<>>])}
              [] endpoint = "whatif" ->
                    {WhatIfResponse([explanation |-> Summary]),
                     WhatIfResponse([explanation |-> <<>>])}}

\* call_api (lines 10-33): the POST it issues, what it returns, what it shows.
call_api(endpoint, code, question, outcome) ==
    [post |-> [url |-> endpoint,
               json |-> IF Truthy(question)
                        THEN [code |-> code, user_question |-> question.some]
                        ELSE [code |-> code]],
     result |-> IF outcome.kind = "ok" THEN Some(outcome.json) ELSE None,
     shown |-> CASE outcome.kind = "ok" -> {}
                 [] outcome.kind = "http_error" ->
                        {<<"error", "API request failed">>,
                         <<"error", "Backend Error">>}
                 [] outcome.kind = "no_response" ->
                        {<<"error", "API request failed">>,
                         <<"error", "Could not retrieve error details from the backend.">>}]

\* result.get(key) of a JSON object whose null fields are None; truthy when
\* neither null nor empty.
Filled(result, key) ==
    /\ result # None
    /\ key \in DOMAIN result.some
    /\ TruthyText(result.some[key])

\* Lines 63-110: the endpoint the selected action is dispatched to, if any.
dispatch(action, what_if_question) ==
    CASE action = "Explain Code" -> Some("explain")
      [] action = "Suggest Improvements" -> Some("suggest")
      [] action = "Debug Code" -> Some("debug")
      [] action = "Answer 'What If'" /\ Truthy(Some(what_if_question)) -> Some("whatif")
      [] OTHER -> None

\* Lines 65-110: what the branch of the action shows for the result.
branch_shown(action, what_if_question, result) ==
    CASE action = "Explain Code" ->
            IF result = None THEN {}
            ELSE {<<"markdown", "### Explanation:">>}
                 \cup (IF Filled(result, "overall_summary")
                       THEN {<<"markdown", "overall_summary">>}
                       ELSE {<<"warning", "No explanation received.">>})
      [] action = "Suggest Improvements" ->
            IF Filled(result, "suggestions")
            THEN {<<"markdown", "### Suggestions:">>, <<"markdown", "suggestions">>}
            ELSE IF result # None
                 THEN {<<"warning", "No suggestions received or an error occurred.">>}
                 ELSE {}
      [] action = "Debug Code" ->
            IF Filled(result, "potential_bugs")
            THEN {<<"markdown", "### Potential Bugs / Issues:">>, <<"markdown", "potential_bugs">>}
            ELSE IF result # None
                 THEN {<<"warning", "No debugging info received or an error occurred.">>}
                 ELSE {}
      [] action = "Answer 'What If'" ->
            IF ~Truthy(Some(what_if_question))
            THEN {<<"warning", "Please enter a 'What If' question.">>}
            ELSE IF result = None THEN {}
                 ELSE {<<"markdown", "### 'What If' Analysis:">>}
                      \cup (IF Filled(result, "explanation")
                            THEN {<<"markdown", "explanation">>} ELSE {})
                      \cup (IF Filled(result, "modified_code")
                            THEN {<<"markdown", "modified_code">>}
                            ELSE IF ~Filled(result, "explanation")
                                 THEN {<<"warning", "No response received for 'What If' scenario.">>}
                                 ELSE {})
      [] OTHER -> {}

\* Lines 112-117
tail_shown(action, what_if_question, result) ==
    IF Filled(result, "error")
    THEN {<<"error", "Error during action">>}
    ELSE IF result = None
            /\ ~(action = "Answer 'What If'" /\ ~Truthy(Some(what_if_question)))
         THEN {<<"error", "Failed to get analysis from the backend.">>}
         ELSE {}

\* A run of the script on a changed widget: the button reads False (line 123).
Rerun(widgets) ==
    [submit_button |-> FALSE, code_input |-> widgets.code_input,
     what_if_question |-> widgets.what_if_question, action |-> widgets.action,
     posts |-> <<>>,
     shown |-> {<<"info", "Enter code and select an action to see the analysis here.">>}]

UICodes == {"", CodeValid}
UIQuestions == {"", Question}

\* st.text_area, line 43
EditCode ==
    /\ \E c \in UICodes :
         /\ c # ui.code_input
         /\ ui' = [ui EXCEPT !.code_input = c]
         /\ run' = Some(Rerun(ui'))
    /\ UNCHANGED <<env, phase, construction, module_state, req, post_vars, parser_vars>>

\* st.text_input, line 46
EditQuestion ==
    /\ \E q \in UIQuestions :
         /\ q # ui.what_if_question
         /\ ui' = [ui EXCEPT !.what_if_question = q]
         /\ run' = Some(Rerun(ui'))
    /\ UNCHANGED <<env, phase, construction, module_state, req, post_vars, parser_vars>>

\* st.selectbox, lines 48-52
SelectAction ==
    /\ \E i \in 1..Len(Actions) :
         /\ Actions[i] # ui.action
         /\ ui' = [ui EXCEPT !.action = Actions[i]]
         /\ run' = Some(Rerun(ui'))
    /\ UNCHANGED <<env, phase, construction, module_state, req, post_vars, parser_vars>>

\* The script dispatching on the action without looking at code_input first.
Submit_unchecked ==
    /\ ui.submits < MaxSubmits
    /\ ui' = [ui EXCEPT !.submits = @ + 1]
    /\ LET inputs == [submit_button |-> TRUE, code_input |-> ui.code_input,
                      what_if_question |-> ui.what_if_question, action |-> ui.action]
           target == dispatch(ui.action, ui.what_if_question)
       IN IF target = None
          THEN run' = Some(inputs @@
                   [posts |-> <<>>,
                    shown |-> branch_shown(ui.action, ui.what_if_question, None)
                              \cup tail_shown(ui.action, ui.what_if_question, None)])
          ELSE \E outcome \in APIOutcomes(target.some) :
                   LET c == call_api(target.some, ui.code_input,
                                     IF target.some = "whatif"
                                     THEN Some(ui.what_if_question) ELSE None,
                                     outcome)
                   IN run' = Some(inputs @@
                          [posts |-> <<c.post>>,
                           shown |-> c.shown
                               \cup branch_shown(ui.action, ui.what_if_question, c.result)
                               \cup tail_shown(ui.action, ui.what_if_question, c.result)])
    /\ UNCHANGED <<env, phase, construction, module_state, req, post_vars, parser_vars>>

\* "Analyze Code" is pressed: the script runs with submit_button True
\* (lines 60-121).
Submit ==
    /\ ui.submits < MaxSubmits
    /\ ui' = [ui EXCEPT !.submits = @ + 1]
    /\ LET inputs == [submit_button |-> TRUE, code_input |-> ui.code_input,
                      what_if_question |-> ui.what_if_question, action |-> ui.action]
           target == dispatch(ui.action, ui.what_if_question)
       IN IF ~Truthy(Some(ui.code_input))
          THEN run' = Some(inputs @@
                   [posts |-> <<>>,
                    shown |-> {<<"warning", "Please enter some code to analyze.">>}])
          ELSE IF target = None
               THEN run' = Some(inputs @@
                        [posts |-> <<>>,
                         shown |-> branch_shown(ui.action, ui.what_if_question, None)
                                   \cup tail_shown(ui.action, ui.what_if_question, None)])
               ELSE \E outcome \in APIOutcomes(target.some) :
                        LET c == call_api(target.some, ui.code_input,
                                          IF target.some = "whatif"
                                          THEN Some(ui.what_if_question) ELSE None,
                                          outcome)
                        IN run' = Some(inputs @@
                               [posts |-> <<c.post>>,
                                shown |-> c.shown
                                    \cup branch_shown(ui.action, ui.what_if_question, c.result)
                                    \cup tail_shown(ui.action, ui.what_if_question, c.result)])
    /\ UNCHANGED <<env, phase, construction, module_state, req, post_vars, parser_vars>>

InitFrontend ==
    /\ env = DefaultEnv
    /\ InitBackend
    /\ InitPost
    /\ InitUI
    /\ InitParser

NextFrontend == EditCode \/ EditQuestion \/ SelectAction \/ Submit

SpecFrontend == InitFrontend /\ [][NextFrontend]_vars

Next ==
    \/ Startup
    \/ \E r \in ReqIds : Receive(r)
    \/ \E r \in ReqIds : LLMReturn(r)
    \/ \E r \in ReqIds : LLMRaise(r)

Spec == Init /\ [][Next]_vars

\* ------------------------------------------------------------ properties
Arrived(r) == req[r].pc # "idle"
Done(r) == req[r].pc = "done"
On(r, endpoint) == Arrived(r) /\ req[r].endpoint = Some(endpoint)
HasCode(r) == Arrived(r) /\ "code" \in DOMAIN req[r].body.some
CodeOf(r) == req[r].body.some.code
Status(r) == req[r].response.some.status

\* t occurs in s, piece by piece.
Contains(s, t) == \E i \in 1..(Len(s) - Len(t) + 1) : SubSeq(s, i, i + Len(t) - 1) = t

ChainOf(endpoint) ==
    CASE endpoint = "explain" -> "explain_chain"
      [] endpoint = "suggest" -> "suggest_chain"
      [] endpoint = "debug" -> "debug_chain"
      [] endpoint = "whatif" -> "what_if_chain"

\* C1: an /explain request whose code parse_python_code rejects (returns None)
\* has ended with get_code_explanation's result {"error": "Syntax error in
\* code, cannot parse."}, that message is what the handler answers with, and
\* explain_chain.ainvoke was not called for it.
C1_SyntaxErrorShortCircuits ==
    \A r \in ReqIds :
        (On(r, "explain") /\ HasCode(r) /\ parse_python_code(CodeOf(r)) = Return(None))
        => /\ Done(r)
           /\ req[r].result = Some([error |-> SyntaxErrorMessage])
           /\ req[r].response.some.body = [detail |-> SyntaxErrorMessage]
           /\ req[r].llmCalls = 0
           /\ req[r].call = None

C1_Witness ==
    \E r \in ReqIds :
        /\ On(r, "explain") /\ Done(r)
        /\ req[r].body = Some([code |-> CodeInvalid])
        /\ req[r].llmCalls = 0

\* C2 as stated: every /suggest, /debug or /whatif request that submits a
\* code, the empty string included and whatever the user_question, invokes
\* the chain of its endpoint.
C2_Original_AnyTextReachesLLM ==
    \A r \in ReqIds :
        (HasCode(r) /\ req[r].endpoint.some \in {"suggest", "debug", "whatif"})
        => /\ req[r].llmCalls = 1
           /\ req[r].call # None
           /\ req[r].call.some.chain = ChainOf(req[r].endpoint.some)

\* C2 as amended: every /suggest, /debug or /whatif request that submits a
\* non-empty code (for /whatif: with a non-empty user_question), whether the
\* code parses or not, has invoked the chain of its endpoint, once, with that
\* code, as soon as the handler has run; no syntax check gates it.
C2_NonEmptyTextReachesLLM ==
    \A r \in ReqIds :
        (/\ HasCode(r)
         /\ req[r].endpoint.some \in {"suggest", "debug", "whatif"}
         /\ CodeOf(r) # ""
         /\ On(r, "whatif") => Truthy(Get(req[r].body.some, "user_question")))
        => /\ req[r].llmCalls = 1
           /\ req[r].call # None
           /\ req[r].call.some.chain = ChainOf(req[r].endpoint.some)
           /\ req[r].call.some.input.code = CodeOf(r)

C2_Witness ==
    /\ \E r \in ReqIds :
         On(r, "suggest") /\ HasCode(r) /\ CodeOf(r) = CodeInvalid /\ req[r].llmCalls = 1
    /\ \E r \in ReqIds :
         On(r, "whatif") /\ HasCode(r) /\ CodeOf(r) = CodeInvalid /\ req[r].llmCalls = 1

\* C3: a request without its required field (no code or an empty code on any
\* endpoint, no user_question or an empty one on /whatif) has ended with a
\* 4xx status and no LLM call.
MissingField(r) ==
    \/ ~HasCode(r)
    \/ CodeOf(r) = ""
    \/ On(r, "whatif") /\ ~Truthy(Get(req[r].body.some, "user_question"))

C3_MissingFieldIsClientError ==
    \A r \in ReqIds :
        (Arrived(r) /\ MissingField(r))
        => /\ Done(r)
           /\ Status(r) \in 400..499
           /\ req[r].llmCalls = 0
           /\ req[r].call = None

C3_Witness ==
    /\ \E r \in ReqIds :
         /\ On(r, "whatif") /\ Done(r)
         /\ req[r].body = Some([code |-> CodeValid, user_question |-> ""])
         /\ Status(r) = 400
    /\ \E r \in ReqIds :
         On(r, "explain") /\ Done(r) /\ req[r].body = Some([code |-> ""]) /\ Status(r) = 400

\* C5: once the import has run, it has failed exactly when the provider is
\* misconfigured (a name outside PROVIDER_CONFIG, its credential variable
\* unset or empty) or the client's constructor raised; after a failed import
\* no request is ever served, and wherever a handler has run, llm is a
\* constructed client and the chain the handler called is built on it.
Misconfigured ==
    LET name == IF env["LLM_PROVIDER"] = None THEN "groq" ELSE Lower(env["LLM_PROVIDER"].some)
    IN \/ name \notin {"openai", "anthropic", "groq", "google"}
       \/ env[PROVIDER_CONFIG[name].api_key_name] \in {None, Some("")}

C5_MisconfiguredNeverServes ==
    /\ phase # "import"
       => (phase = "failed" <=>
              (Misconfigured \/ construction \in {Some("ImportError"), Some("Exception")}))
    /\ phase = "failed" => \A r \in ReqIds : ~Arrived(r)
    /\ \A r \in ReqIds :
         Arrived(r)
         => /\ phase = "running"
            /\ llm # None
            /\ llm.some.class = PROVIDER_CONFIG[LLM_PROVIDER.some].class
            /\ req[r].call # None => req[r].call.some.runnable.llm = llm

C5_Witness ==
    /\ phase = "failed"
    /\ env["LLM_PROVIDER"] = None
    /\ env["OPENAI_API_KEY"] = Some("sk-test")

\* C6: in each of the four operations, when chain.ainvoke raised, the service
\* function has returned (the handler holds a result, no exception reached
\* it) a dict whose only key is "error", whose message ends in "An internal
\* error occurred." and holds nothing of the exception's text.
C6_LLMExceptionBecomesGenericError ==
    \A r \in ReqIds :
        (Done(r) /\ req[r].outcome # None /\ req[r].outcome.some.kind = "raise")
        => /\ req[r].result # None
           /\ DOMAIN req[r].result.some = {"error"}
           /\ LET error == req[r].result.some.error
              IN /\ error # <<>>
                 /\ error[Len(error)] = InternalError
                 /\ ~Contains(error, req[r].outcome.some.exc.text)
                 /\ req[r].response.some.body = [detail |-> error]

C6_Witness ==
    \A endpoint \in {"explain", "debug"} :
        \E r \in ReqIds :
            /\ On(r, endpoint) /\ Done(r)
            /\ req[r].outcome = Some(Raise([type |-> "APIConnectionError",
                                            text |-> <<"Connection error.">>]))

\* C7 as stated: when the syntax check fails on /explain, the client receives
\* the explanation record with its error field populated.
C7_Original_ErrorFieldInBody ==
    \A r \in ReqIds :
        (On(r, "explain") /\ Done(r) /\ req[r].result = Some([error |-> SyntaxErrorMessage]))
        => /\ Status(r) = 200
           /\ "error" \in DOMAIN req[r].response.some.body
           /\ req[r].response.some.body.error = Some(SyntaxErrorMessage)

\* C7 as amended: when the syntax check fails on /explain, the client
\* receives an HTTP 500 error response whose detail is the syntax-error
\* message, and no explanation record.
C7_SyntaxErrorIsHTTP500Detail ==
    \A r \in ReqIds :
        (On(r, "explain") /\ Done(r) /\ req[r].result = Some([error |-> SyntaxErrorMessage]))
        => req[r].response =
               Some([status |-> 500, body |-> [detail |-> SyntaxErrorMessage]])

C7_Witness ==
    \E r \in ReqIds :
        /\ On(r, "explain")
        /\ req[r].result = Some([error |-> SyntaxErrorMessage])
        /\ req[r].response # None
        /\ Status(r) = 500

\* C9: during one request the LLM chain is invoked at most once, whether the
\* call succeeds or raises; a request whose call has ended was invoked once.
C9_AtMostOneLLMCall ==
    \A r \in ReqIds :
        /\ req[r].llmCalls <= 1
        /\ req[r].outcome # None => req[r].llmCalls = 1
        /\ req[r].pc = "awaiting" => req[r].llmCalls = 1

C9_Witness ==
    \E r \in ReqIds :
        /\ Done(r)
        /\ req[r].outcome # None
        /\ req[r].outcome.some.kind = "raise"
        /\ req[r].llmCalls = 1

\* C10: once the import has run, no step of a handler changes llm,
\* LLM_PROVIDER or the chains, and two requests with the same endpoint, body
\* and LLM outcome have the same response, whatever ran in between.
SameInput(r1, r2) ==
    /\ req[r1].endpoint = req[r2].endpoint
    /\ req[r1].body = req[r2].body
    /\ req[r1].outcome = req[r2].outcome

Deterministic ==
    \A r1, r2 \in ReqIds :
        (Done(r1) /\ Done(r2) /\ SameInput(r1, r2))
        => /\ req[r1].response = req[r2].response
           /\ req[r1].result = req[r2].result

C10_NoSharedMutableState ==
    [][/\ phase = "running" => UNCHANGED module_state
       /\ Deterministic']_vars

C10_Witness ==
    \E r1, r2 \in ReqIds :
        /\ r1 # r2
        /\ Done(r1) /\ Done(r2)
        /\ SameInput(r1, r2)
        /\ req[r1].outcome # None

\* ---- C4: the lines of the text, stated by position.  A line is a maximal
\* stretch <<i, j>> without a newline (j = i - 1 for an empty line).
Lines(t) ==
    {b \in (1..(Len(t) + 1)) \X (0..Len(t)) :
        /\ b[2] >= b[1] - 1
        /\ b[1] = 1 \/ t[b[1] - 1] = NL
        /\ b[2] = Len(t) \/ t[b[2] + 1] = NL
        /\ \A k \in b[1]..b[2] : t[k] # NL}

Ink(t, b) == {k \in b[1]..b[2] : t[k] \notin Whitespace}
NonBlankLines(t) == {b \in Lines(t) : Ink(t, b) # {}}
Min(S) == CHOOSE x \in S : \A y \in S : x <= y
Max(S) == CHOOSE x \in S : \A y \in S : x >= y
\* The line as it stands, and without its leading and trailing whitespace.
LineText(t, b) == SubSeq(t, b[1], b[2])
Trimmed(t, b) == SubSeq(t, Min(Ink(t, b)), Max(Ink(t, b)))
\* The k-th non-blank line, in the order of the text.
NthNonBlank(t, k) ==
    CHOOSE b \in NonBlankLines(t) :
        Cardinality({c \in NonBlankLines(t) : c[1] < b[1]}) = k - 1

\* The entries of a result: the suggestions, or the issue of each bug record.
Entries(d) ==
    IF "suggestions" \in DOMAIN d
    THEN d.suggestions
    ELSE [i \in 1..Len(d.potential_bugs) |-> d.potential_bugs[i].issue]

WellShaped(d) ==
    \/ DOMAIN d = {"suggestions"}
    \/ /\ DOMAIN d = {"potential_bugs"}
       /\ \A i \in 1..Len(d.potential_bugs) : DOMAIN d.potential_bugs[i] = {"issue"}

\* C4 as stated: the list holds exactly the non-blank lines of the text, one
\* entry per non-blank line, in the order of the text, each entry being that
\* line (for debug: a record with the single key "issue" holding that line).
C4_Original_EntriesAreTheLines ==
    processed # None
    => /\ WellShaped(processed.some)
       /\ Len(Entries(processed.some)) = Cardinality(NonBlankLines(text))
       /\ \A k \in 1..Len(Entries(processed.some)) :
            Entries(processed.some)[k] = LineText(text, NthNonBlank(text, k))

\* C4 as amended: the list has one entry per non-blank line of the text, in
\* the order of the text, each entry being that line without its leading and
\* trailing whitespace (for debug: a record with the single key "issue"
\* holding it); blank lines give no entry.
C4_EntriesAreTheTrimmedLines ==
    processed # None
    => /\ WellShaped(processed.some)
       /\ Len(Entries(processed.some)) = Cardinality(NonBlankLines(text))
       /\ \A k \in 1..Len(Entries(processed.some)) :
            Entries(processed.some)[k] = Trimmed(text, NthNonBlank(text, k))

C4_Witness ==
    /\ text = <<"b", NL, NL, "a">>
    /\ processed = Some([potential_bugs |-> <<[issue |-> <<"b">>], [issue |-> <<"a">>]>>])

\* ---- C8: the endpoint that belongs to each entry of the action selector.
EndpointOfAction == <<"explain", "suggest", "debug", "whatif">>
ActionIndex(a) == CHOOSE i \in 1..Len(Actions) : Actions[i] = a

\* C8: whatever action of the selector is selected, a press of the button
\* with a non-empty code (and, for the fourth, what-if, action, a non-empty
\* question) has issued a POST to the endpoint of that action.
C8_EveryActionPostsToItsEndpoint ==
    (/\ run # None
     /\ run.some.submit_button
     /\ run.some.code_input # ""
     /\ run.some.action = Actions[4] => run.some.what_if_question # "")
    => \E i \in 1..Len(run.some.posts) :
           /\ run.some.posts[i].url = EndpointOfAction[ActionIndex(run.some.action)]
           /\ run.some.posts[i].json.code = run.some.code_input

\* ---- C11: the function definitions of a tree, stated by position.
TopLevelFunctions(t) == {i \in 1..Len(t) : t[i].kind = "FunctionDef" /\ t[i].depth = 1}
AllFunctions(t) == {i \in 1..Len(t) : t[i].kind = "FunctionDef"}
\* Breadth-first order: shallower first, source order within a depth.
Before(t, i, j) == t[i].depth < t[j].depth \/ (t[i].depth = t[j].depth /\ i < j)
Nth(t, S, k) == CHOOSE i \in S : Cardinality({j \in S : Before(t, j, i)}) = k - 1
NamesOf(t, S) == [k \in 1..Cardinality(S) |-> t[Nth(t, S, k)].name]

\* C11 as stated: get_function_definitions returns the names of the tree's
\* top-level function definitions, and only those.
C11_Original_TopLevelOnly ==
    functions # None => functions.some = NamesOf(tree, TopLevelFunctions(tree))

\* C11 as amended: get_function_definitions returns the name of every
\* FunctionDef node of the tree, at any depth (top-level functions, functions
\* nested in functions, methods of classes; no async def), in breadth-first
\* order.
C11_EveryFunctionDefAtAnyDepth ==
    functions # None => functions.some = NamesOf(tree, AllFunctions(tree))

C11_Witness ==
    /\ tree = <<[kind |-> "ClassDef", name |-> "C", depth |-> 1],
                [kind |-> "FunctionDef", name |-> "g", depth |-> 2],
                [kind |-> "Assign", name |-> "x", depth |-> 3],
                [kind |-> "FunctionDef", name |-> "f", depth |-> 1],
                [kind |-> "Assign", name |-> "x", depth |-> 2]>>
    /\ functions = Some(<<"f", "g">>)

\* C12: when the environment does not set LLM_PROVIDER, the provider selected
\* by the import is 'openai'.
C12_DefaultProviderIsOpenAI ==
    (phase # "import" /\ env["LLM_PROVIDER"] = None) => LLM_PROVIDER = Some("openai")

\* ---- C13
ReachedHandler(r) == Done(r) /\ req[r].payload # None
PayloadField(endpoint) ==
    CASE endpoint = "explain" -> "overall_summary"
      [] endpoint = "suggest" -> "suggestions"
      [] endpoint = "debug" -> "potential_bugs"
      [] endpoint = "whatif" -> "explanation"
FixedDetails == {<<"No code provided">>, <<"Code and user question required">>}

Is400(r) ==
    /\ Status(r) = 400
    /\ \E detail \in FixedDetails : req[r].response.some.body = [detail |-> detail]

Is500(r) ==
    /\ Status(r) = 500
    /\ req[r].result # None
    /\ "error" \in DOMAIN req[r].result.some
    /\ req[r].response.some.body = [detail |-> req[r].result.some.error]

Is200(r) ==
    /\ Status(r) = 200
    /\ req[r].response.some.body.error = None
    /\ req[r].response.some.body[PayloadField(req[r].endpoint.some)] # None

\* C13: every request that reached its handler has ended in one of three
\* ways: 400 with a fixed detail, 500 whose detail is the service function's
\* error string, or 200 with error null and the operation's payload field
\* set; and no service result holds both an error and a payload.
C13_ThreeOutcomes ==
    \A r \in ReqIds :
        ReachedHandler(r)
        => /\ Is400(r) \/ Is500(r) \/ Is200(r)
           /\ req[r].result # None
              => ~({"error", PayloadField(req[r].endpoint.some)}
                       \subseteq DOMAIN req[r].result.some)

\* C14: a press of the button with an empty code input issues no request,
\* whatever the action, and shows only the warning 'Please enter some code to
\* analyze.'.
C14_EmptyCodeNeverPosts ==
    (run # None /\ run.some.submit_button /\ run.some.code_input = "")
    => /\ run.some.posts = <<>>
       /\ run.some.shown = {<<"warning", "Please enter some code to analyze.">>}

C14_Witness ==
    /\ run # None
    /\ run.some.submit_button
    /\ run.some.code_input = ""
    /\ run.some.action = "Debug Code"
    /\ run.some.what_if_question = Question

====
